---- MODULE Spec2Model ----
(***************************************************************************)
(* CSVAutomationBot (src/.kiro/workflow.ts): the seven-step batch pipeline *)
(* Init, Read, Clean, Organize, Generate, Archive, Report run by           *)
(* runAutomation on the exported automationBot instance, together with the *)
(* three directories it works on (input, input/archive, output).           *)
(***************************************************************************)
EXTENDS Integers, Sequences, FiniteSets, TLC

(* ------------------------------ bounds -------------------------------- *)
\* records supplied to the input directory (input + archive) at any time
MaxItems == 2
\* largest value the millisecond clock reaches; successive executeWorkflow calls
\* are at least one millisecond apart, so it also bounds the number of runs
MaxClock == 2
\* length of the record sequence handed to cleanData in SpecClean
MaxLen == 3

(* --------------------------- value domains ---------------------------- *)
\* a JSON object that lacks the field
Undefined == "<undefined>"

Item(i, n, c) == [id |-> i, name |-> n, category |-> c]

\* the JSON objects input files are built from
ItemPool ==
    { Item("1", "Alice", "Team"),
      Item("row_0", "Bob", "team"),
      Item("1", "Carol", ""),
      Item(Undefined, Undefined, "Work") }

FileName(stem, ext) == [stem |-> stem, ext |-> ext]

\* the names an input file can have
FileNames ==
    { FileName("a", ".json"), FileName("b", ".json"),
      FileName("c", ".csv"), FileName("d", ".txt") }

BoundedSeq(S, n) == UNION { [1..k -> S] : k \in 0..n }

\* file contents: text that is not JSON, a JSON array, a single JSON object
TextContent == [kind |-> "text", items |-> <<>>]
ArrayContent(items) == [kind |-> "array", items |-> items]
ObjectContent(item) == [kind |-> "object", items |-> <<item>>]

\* what a new file of the given name can hold when n more records may be supplied
Contents(name, n) ==
    IF name.ext = ".json"
    THEN {TextContent}
            \cup { ArrayContent(s) : s \in BoundedSeq(ItemPool, n) }
            \cup (IF n >= 1 THEN { ObjectContent(i) : i \in ItemPool } ELSE {})
    ELSE {TextContent}
            \cup (IF n >= 1 /\ name.ext = ".csv"
                  THEN {ArrayContent(<<Item("1", "Alice", "Team")>>)} ELSE {})

NoError == "none"
NoPath == <<>>

Steps == <<"Init", "Read", "Clean", "Organize", "Generate", "Archive", "Report">>

(* ------------------------------- state -------------------------------- *)
VARIABLES
    dirs,            \* the directories that exist: "input", "output", "archive"
    inputDir,        \* files directly in ./data/input: name -> content
    archiveDir,      \* files in ./data/input/archive: name -> content
    outputDir,       \* files in ./data/output: name -> content
    now,             \* the wall clock, in milliseconds
    pc,              \* "Idle", the step runAutomation executes next, "Done", "Failed"
    run,             \* executeWorkflow calls so far
    data,            \* runAutomation: const data
    unique,          \* cleanData: const unique
    cleanedData,     \* runAutomation: const cleanedData
    organizedData,   \* runAutomation: const organizedData, a Map in insertion order
    processedCount,  \* this.processedCount
    raised,          \* the error a step raised in this run
    rethrown,        \* the error runAutomation threw to its caller
    started,         \* the steps this run started, in order
    created,         \* the file names generateCSVOutput logged as created, in order
    reportPath,      \* the report path generateReport logged
    atStart          \* the directories and the count when this run started

vars == <<dirs, inputDir, archiveDir, outputDir, now, pc, run, data, unique, cleanedData,
          organizedData, processedCount, raised, rethrown, started, created,
          reportPath, atStart>>

(* ---------------------------- JS helpers ------------------------------ *)
\* String.prototype.endsWith on a file name
EndsWith(file, suffix) == file.ext = suffix

\* a condition that forgets the .csv files
QualifiesJsonOnly(file) == EndsWith(file, ".json")

\* the condition of readInputFiles and archiveProcessedFiles
Qualifies(file) == EndsWith(file, ".csv") \/ EndsWith(file, ".json")

\* JavaScript truthiness of a string or missing field
Truthy(v) == v \notin {Undefined, ""}

\* v || d
OrElse(v, d) == IF Truthy(v) THEN v ELSE d

\* `row_${idx}`
RowId(idx) ==
    CASE idx = 0 -> "row_0" [] idx = 1 -> "row_1" [] idx = 2 -> "row_2"
      [] idx = 3 -> "row_3" [] idx = 4 -> "row_4" [] OTHER -> "row_n"

\* String.prototype.toLowerCase
ToLowerCase(s) ==
    CASE s = "Team" -> "team"
      [] s = "Work" -> "work"
      [] s = "Uncategorized" -> "uncategorized"
      [] s = "Unknown" -> "unknown"
      [] s = "Alice" -> "alice"
      [] OTHER -> s

\* a Map.prototype.set that moves an existing key to the end
MapSetReinsert(m, k, v) ==
    Append(SelectSeq(m, LAMBDA e : e[1] # k), <<k, v>>)

\* Map.prototype.set on a Map kept as its entries <<key, value>> in insertion
\* order: an existing key keeps its position and takes the new value
MapSet(m, k, v) ==
    IF \E i \in 1..Len(m) : m[i][1] = k
    THEN [i \in 1..Len(m) |-> IF m[i][1] = k THEN <<k, v>> ELSE m[i]]
    ELSE Append(m, <<k, v>>)

MapHas(m, k) == \E i \in 1..Len(m) : m[i][1] = k

MapGet(m, k) == m[CHOOSE i \in 1..Len(m) : m[i][1] = k][2]

\* new Map(entries)
RECURSIVE MapOf(_, _)
MapOf(entries, n) ==
    IF n = 0 THEN <<>>
    ELSE MapSet(MapOf(entries, n - 1), entries[n][1], entries[n][2])

\* Array.from(map.values())
MapValues(m) == [i \in 1..Len(m) |-> m[i][2]]

Range(s) == { s[i] : i \in 1..Len(s) }

\* the orders in which readdirSync can list the files of a set
Listings(files) ==
    { l \in [1..Cardinality(files) -> files] : Range(l) = files }

\* the values successive clock reads can return from time t on
ClockReads(n, t) ==
    { ts \in [1..n -> t..MaxClock] : \A i \in 1..n - 1 : ts[i] <= ts[i + 1] }

\* dir with content written at name (an existing file is replaced)
WriteFile(dir, name, content) ==
    [f \in DOMAIN dir \cup {name} |-> IF f = name THEN content ELSE dir[f]]

\* dir without the files in names
Unlink(dir, names) == [f \in DOMAIN dir \ names |-> dir[f]]

NoFiles == [f \in {} |-> TextContent]

\* records held by the files of a directory
RECURSIVE TotalItems(_)
TotalItems(dir) ==
    IF DOMAIN dir = {} THEN 0
    ELSE LET f == CHOOSE g \in DOMAIN dir : TRUE
         IN  (IF dir[f].kind = "text" THEN 0 ELSE Len(dir[f].items))
                 + TotalItems(Unlink(dir, {f}))

(* ---------------------------- parseData ------------------------------- *)
\* JSON.parse(content) throws on text that is not JSON
ParseThrows(content, filename) ==
    EndsWith(filename, ".json") /\ content.kind = "text"

\* a parseData whose synthetic ids carry the name of the file
parseDataFileScoped(content, filename, t) ==
    IF EndsWith(filename, ".json")
    THEN [idx \in 1..Len(content.items) |->
            [id |-> OrElse(content.items[idx].id,
                           IF filename.stem = "a" THEN "a_row" ELSE RowId(idx - 1)),
             name |-> OrElse(content.items[idx].name, "Unknown"),
             category |-> OrElse(content.items[idx].category, "Uncategorized"),
             timestamp |-> t,
             processed |-> FALSE]]
    ELSE <<>>

\* parseData(content, filename) when the clock reads t throughout the call
parseData(content, filename, t) ==
    IF EndsWith(filename, ".json")
    THEN [idx \in 1..Len(content.items) |->
            [id |-> OrElse(content.items[idx].id, RowId(idx - 1)),
             name |-> OrElse(content.items[idx].name, "Unknown"),
             category |-> OrElse(content.items[idx].category, "Uncategorized"),
             timestamp |-> t,
             processed |-> FALSE]]
    ELSE <<>>

(* -------------------------- readInputFiles ---------------------------- *)
\* data after the loop of readInputFiles handled the first k listed files
RECURSIVE ReadFiles(_, _, _, _)
ReadFiles(dir, listing, k, t) ==
    IF k = 0 THEN <<>>
    ELSE LET before == ReadFiles(dir, listing, k - 1, t)
             file == listing[k]
         IN  IF Qualifies(file)
             THEN before \o parseData(dir[file], file, t)
             ELSE before

(* ----------------------------- cleanData ------------------------------ *)
\* a deduplication in which the first occurrence of an id wins
RECURSIVE FirstWinsUpTo(_, _)
FirstWinsUpTo(d, n) ==
    IF n = 0 THEN <<>>
    ELSE LET u == FirstWinsUpTo(d, n - 1)
         IN  IF \E j \in 1..Len(u) : u[j].id = d[n].id THEN u ELSE Append(u, d[n])

UniqueFirstWins(d) == FirstWinsUpTo(d, Len(d))

\* Array.from(new Map(data.map(d => [d.id, d])).values())
Unique(d) == MapValues(MapOf([i \in 1..Len(d) |-> <<d[i].id, d[i]>>], Len(d)))

\* a validation that forgets the category
ValidIgnoringCategory(row) == Truthy(row.id) /\ Truthy(row.name)

\* row.id && row.name && row.category
Valid(row) == Truthy(row.id) /\ Truthy(row.name) /\ Truthy(row.category)

\* unique.filter(...)
Validated(u) == SelectSeq(u, Valid)

cleanData(d) == Validated(Unique(d))

(* ---------------------------- organizeData ---------------------------- *)
\* the Map after the loop of organizeData handled the first n rows
RECURSIVE OrganizeRows(_, _)
OrganizeRows(d, n) ==
    IF n = 0 THEN <<>>
    ELSE LET m == OrganizeRows(d, n - 1)
             row == d[n]
             m1 == IF ~MapHas(m, row.category) THEN MapSet(m, row.category, <<>>) ELSE m
         IN  MapSet(m1, row.category, Append(MapGet(m1, row.category), row))

\* an organizeData that replaces a bucket's rows instead of pushing to them
organizeDataReplacing(d) ==
    LET m == OrganizeRows(d, Len(d))
    IN  [i \in 1..Len(m) |-> <<m[i][1], <<m[i][2][Len(m[i][2])]>>>>]

organizeData(d) == OrganizeRows(d, Len(d))

(* ------------------------- generateCSVOutput -------------------------- *)
Headers == <<"ID", "Name", "Category", "Timestamp", "Processed">>

Quoted(s) == <<"\"", s, "\"">>

\* `"${d.id}","${d.name}","${d.category}","${d.timestamp}",${d.processed}`
CsvRow(d) ==
    <<Quoted(d.id), Quoted(d.name), Quoted(d.category), Quoted(d.timestamp), d.processed>>

\* a convertToCSV that forgets the header row
convertToCSVNoHeader(rows) == [i \in 1..Len(rows) |-> CsvRow(rows[i])]

\* convertToCSV(data): the lines joined by "\n"
convertToCSV(rows) == <<Headers>> \o [i \in 1..Len(rows) |-> CsvRow(rows[i])]

\* `${category.toLowerCase()}_${Date.now()}.csv`
CsvName(category, t) == FileName(<<ToLowerCase(category), "_", t>>, ".csv")

\* the output directory after the loop of generateCSVOutput wrote k buckets
RECURSIVE WriteBuckets(_, _, _, _)
WriteBuckets(dir, organized, times, k) ==
    IF k = 0 THEN dir
    ELSE WriteFile(WriteBuckets(dir, organized, times, k - 1),
                   CsvName(organized[k][1], times[k]),
                   convertToCSV(organized[k][2]))

\* what the loop added to this.processedCount after k buckets
RECURSIVE CountRows(_, _)
CountRows(organized, k) ==
    IF k = 0 THEN 0 ELSE CountRows(organized, k - 1) + Len(organized[k][2])

(* --------------------------- generateReport --------------------------- *)
Report(t1, count, t2) ==
    [timestamp |-> t1, totalRecordsProcessed |-> count,
     outputDirectory |-> "./data/output", status |-> "SUCCESS", executionTime |-> t2]

\* `report_${Date.now()}.json`
ReportName(t) == FileName(<<"report", "_", t>>, ".json")

(* ---------------------------- runAutomation --------------------------- *)
\* a try block that goes from Generate straight to Report
AfterSkippingArchive(step) ==
    CASE step = "Init" -> "Read"
      [] step = "Read" -> "Clean"
      [] step = "Clean" -> "Organize"
      [] step = "Organize" -> "Generate"
      [] step = "Generate" -> "Report"
      [] step = "Archive" -> "Report"
      [] step = "Report" -> "Done"

\* the statement sequence of the try block
After(step) ==
    CASE step = "Init" -> "Read"
      [] step = "Read" -> "Clean"
      [] step = "Clean" -> "Organize"
      [] step = "Organize" -> "Generate"
      [] step = "Generate" -> "Archive"
      [] step = "Archive" -> "Report"
      [] step = "Report" -> "Done"

\* catch (error) { ...; throw error }
Catch(error) == error

Begin(step) == pc = step /\ started' = Append(started, step)

Complete(step) ==
    pc' = After(step) /\ raised' = NoError /\ rethrown' = NoError

Throw(error) ==
    pc' = "Failed" /\ raised' = error /\ rethrown' = Catch(error)

\* a loop in which only the first listed file can abort the run
ReadThrowsFirstOnly(dir, listing) ==
    /\ listing # <<>>
    /\ Qualifies(listing[1])
    /\ ParseThrows(dir[listing[1]], listing[1])

\* the loop of readInputFiles meets a file whose parse throws
ReadThrows(dir, listing) ==
    \E k \in 1..Len(listing) :
        Qualifies(listing[k]) /\ ParseThrows(dir[listing[k]], listing[k])

Snapshot ==
    [input |-> inputDir, archive |-> archiveDir, output |-> outputDir,
     count |-> processedCount]

(* ------------------------------ actions ------------------------------- *)
Init ==
    /\ dirs = {}
    /\ inputDir = NoFiles
    /\ archiveDir = NoFiles
    /\ outputDir = NoFiles
    /\ now = 0
    /\ pc = "Idle"
    /\ run = 0
    /\ data = <<>>
    /\ unique = <<>>
    /\ cleanedData = <<>>
    /\ organizedData = <<>>
    /\ processedCount = 0
    /\ raised = NoError
    /\ rethrown = NoError
    /\ started = <<>>
    /\ created = <<>>
    /\ reportPath = NoPath
    /\ atStart = [input |-> NoFiles, archive |-> NoFiles, output |-> NoFiles, count |-> 0]

\* before the first run, somebody drops a new file into the input directory
\* (later runs find what the earlier ones left there)
PutFile ==
    /\ pc = "Idle"
    /\ \E name \in FileNames \ DOMAIN inputDir :
         \E content \in Contents(name, MaxItems - TotalItems(inputDir)
                                                  - TotalItems(archiveDir)) :
            inputDir' = WriteFile(inputDir, name, content)
    /\ dirs' = dirs \cup {"input"}
    /\ pc' = "Idle"
    /\ UNCHANGED <<archiveDir, outputDir, now, run, data, unique, cleanedData, organizedData,
                   processedCount, raised, rethrown, started, created, reportPath,
                   atStart>>

\* executeWorkflow(): automationBot.runAutomation() enters its try block
StartRun ==
    /\ pc \in {"Idle", "Done", "Failed"}
    /\ now < MaxClock
    /\ now' = now + 1
    /\ run' = run + 1
    /\ pc' = "Init"
    /\ data' = <<>>
    /\ unique' = <<>>
    /\ cleanedData' = <<>>
    /\ organizedData' = <<>>
    /\ raised' = NoError
    /\ rethrown' = NoError
    /\ started' = <<>>
    /\ created' = <<>>
    /\ reportPath' = NoPath
    /\ atStart' = Snapshot
    /\ UNCHANGED <<dirs, inputDir, archiveDir, outputDir, processedCount>>

\* initializeDirectories
InitializeDirectories ==
    /\ Begin("Init")
    /\ \/ /\ dirs' = dirs \cup {"input", "output"}
          /\ Complete("Init")
       \/ /\ dirs' = dirs
          /\ Throw("IOError")
    /\ UNCHANGED <<inputDir, archiveDir, outputDir, now, run, data, unique, cleanedData,
                   organizedData, processedCount, created, reportPath, atStart>>

\* readInputFiles
ReadInputFiles ==
    /\ Begin("Read")
    /\ \/ \E listing \in Listings(DOMAIN inputDir) :
            IF ReadThrows(inputDir, listing)
            THEN /\ Throw("SyntaxError")
                 /\ UNCHANGED <<data, now>>
            ELSE /\ data' = ReadFiles(inputDir, listing, Len(listing), now)
                 /\ now' = now
                 /\ Complete("Read")
       \/ /\ Throw("IOError")
          /\ UNCHANGED <<data, now>>
    /\ UNCHANGED <<dirs, inputDir, archiveDir, outputDir, run, unique, cleanedData,
                   organizedData, processedCount, created, reportPath, atStart>>

\* cleanData
CleanData ==
    /\ Begin("Clean")
    /\ unique' = Unique(data)
    /\ cleanedData' = cleanData(data)
    /\ Complete("Clean")
    /\ UNCHANGED <<dirs, inputDir, archiveDir, outputDir, now, run, data,
                   organizedData, processedCount, created, reportPath, atStart>>

\* organizeData
OrganizeData ==
    /\ Begin("Organize")
    /\ organizedData' = organizeData(cleanedData)
    /\ Complete("Organize")
    /\ UNCHANGED <<dirs, inputDir, archiveDir, outputDir, now, run, data,
                   unique, cleanedData, processedCount, created, reportPath, atStart>>

\* generateCSVOutput: k buckets are written; a write that fails ends the loop
GenerateCSVOutput ==
    /\ Begin("Generate")
    /\ \E times \in ClockReads(Len(organizedData), now) :
         \E k \in 0..Len(organizedData) :
            /\ outputDir' = WriteBuckets(outputDir, organizedData, times, k)
            /\ created' = [i \in 1..k |-> CsvName(organizedData[i][1], times[i])]
            /\ processedCount' = processedCount + CountRows(organizedData, k)
            /\ now' = IF k = 0 THEN now ELSE times[k]
            /\ IF k = Len(organizedData) THEN Complete("Generate") ELSE Throw("IOError")
    /\ UNCHANGED <<dirs, inputDir, archiveDir, run, data, unique, cleanedData, organizedData,
                   reportPath, atStart>>

\* archiveProcessedFiles: the files in moved are renamed; a rename that fails
\* ends the loop
ArchiveProcessedFiles ==
    /\ Begin("Archive")
    /\ LET files == { f \in DOMAIN inputDir : Qualifies(f) }
       IN  /\ dirs' = dirs \cup {"archive"}
           /\ \E moved \in SUBSET files :
                 /\ archiveDir' = [f \in DOMAIN archiveDir \cup moved |->
                                     IF f \in moved THEN inputDir[f] ELSE archiveDir[f]]
                 /\ inputDir' = Unlink(inputDir, moved)
                 /\ IF moved = files THEN Complete("Archive") ELSE Throw("IOError")
    /\ UNCHANGED <<outputDir, now, run, data, unique, cleanedData, organizedData,
                   processedCount, created, reportPath, atStart>>

\* generateReport; its three clock reads fall into one millisecond t
GenerateReport ==
    /\ Begin("Report")
    /\ \/ \E t \in now..MaxClock :
            /\ outputDir' = WriteFile(outputDir, ReportName(t),
                                      Report(t, processedCount, t))
            /\ reportPath' = ReportName(t)
            /\ now' = t
            /\ Complete("Report")
       \/ /\ Throw("IOError")
          /\ UNCHANGED <<outputDir, reportPath, now>>
    /\ UNCHANGED <<dirs, inputDir, archiveDir, run, data, unique, cleanedData,
                   organizedData, processedCount, created, atStart>>

Next ==
    \/ PutFile
    \/ StartRun
    \/ InitializeDirectories
    \/ ReadInputFiles
    \/ CleanData
    \/ OrganizeData
    \/ GenerateCSVOutput
    \/ ArchiveProcessedFiles
    \/ GenerateReport

Spec == Init /\ [][Next]_vars

(* ------------- cleanData and organizeData on arbitrary rows ----------- *)
Row(i, n, c) == [id |-> i, name |-> n, category |-> c, timestamp |-> 0, processed |-> FALSE]

\* DataRow values, fields possibly empty
RowPool ==
    { Row("1", "Alice", "Team"),
      Row("1", "Bob", "team"),
      Row("2", "Carol", "Team"),
      Row("3", "Dan", "team"),
      Row("2", "", "Work"),
      Row("", "Eve", "Work"),
      Row("3", "Fay", "") }

\* runAutomation about to call cleanData on any sequence of rows
InitClean ==
    /\ dirs = {"input", "output"}
    /\ inputDir = NoFiles
    /\ archiveDir = NoFiles
    /\ outputDir = NoFiles
    /\ now = 0
    /\ pc = "Clean"
    /\ run = 1
    /\ data \in BoundedSeq(RowPool, MaxLen)
    /\ unique = <<>>
    /\ cleanedData = <<>>
    /\ organizedData = <<>>
    /\ processedCount = 0
    /\ raised = NoError
    /\ rethrown = NoError
    /\ started = <<"Init", "Read">>
    /\ created = <<>>
    /\ reportPath = NoPath
    /\ atStart = [input |-> NoFiles, archive |-> NoFiles, output |-> NoFiles, count |-> 0]

NextClean ==
    \/ CleanData
    \/ OrganizeData

SpecClean == InitClean /\ [][NextClean]_vars

(* ====================== properties of the pipeline ==================== *)
\* the step has been started in this run
Did(step) == \E i \in 1..Len(started) : started[i] = step

\* the step ran to its end without raising
Completed(step) ==
    /\ Did(step)
    /\ pc # step
    /\ ~(pc = "Failed" /\ started[Len(started)] = step)

Ids(s) == { s[i].id : i \in 1..Len(s) }

FirstIndex(s, id) == CHOOSE i \in 1..Len(s) :
    s[i].id = id /\ \A j \in 1..Len(s) : s[j].id = id => i <= j

LastIndex(s, id) == CHOOSE i \in 1..Len(s) :
    s[i].id = id /\ \A j \in 1..Len(s) : s[j].id = id => j <= i

AllNonEmpty(row) == row.id # "" /\ row.name # "" /\ row.category # ""

\* C1: deduplication keeps exactly one record per distinct id of the input, the
\* last occurrence of that id in arrival order, so that after Clean no two
\* records share an id.
C1_DedupLastWins ==
    Completed("Clean") =>
        /\ \A i \in 1..Len(data) :
              Cardinality({ j \in 1..Len(unique) : unique[j].id = data[i].id }) = 1
        /\ \A j \in 1..Len(unique) :
              /\ unique[j].id \in Ids(data)
              /\ unique[j] = data[LastIndex(data, unique[j].id)]
        /\ \A i, j \in 1..Len(cleanedData) :
              cleanedData[i].id = cleanedData[j].id => i = j

\* an id occurred twice with different records, and Clean kept one of them
C1_Witness ==
    /\ Completed("Clean")
    /\ \E i, k \in 1..Len(data) :
          /\ i < k
          /\ data[i].id = data[k].id
          /\ data[i] # data[k]
          /\ \E j \in 1..Len(cleanedData) : cleanedData[j] = data[k]

\* C2: a deduplicated record survives validation iff its id, name and category
\* are all non-empty, and the survivors keep their deduplicated order.
C2_ValidationComplete ==
    Completed("Clean") =>
        /\ \A j \in 1..Len(unique) :
              (\E i \in 1..Len(cleanedData) : cleanedData[i] = unique[j])
                  <=> AllNonEmpty(unique[j])
        /\ \A i \in 1..Len(cleanedData) :
              /\ cleanedData[i].id \in Ids(unique)
              /\ cleanedData[i] = unique[FirstIndex(unique, cleanedData[i].id)]
        /\ \A i, k \in 1..Len(cleanedData) :
              i < k => FirstIndex(unique, cleanedData[i].id)
                          < FirstIndex(unique, cleanedData[k].id)

\* validation dropped a record with an empty category, one with an empty name
\* or id, and kept two
C2_Witness ==
    /\ Completed("Clean")
    /\ \E j \in 1..Len(unique) : unique[j].category = "" /\ unique[j].id # ""
    /\ Len(cleanedData) >= 1
    /\ Len(unique) = 3

\* C3: the buckets of organizeData partition the validated sequence: every
\* validated record is in exactly one bucket, once, the one keyed by its exact
\* category string; no bucket holds anything else or is empty.
C3_CategoryPartition ==
    Completed("Organize") =>
        /\ \A i \in 1..Len(cleanedData) :
              /\ Cardinality({ bp \in { <<b, p>> : b \in 1..Len(organizedData),
                                                  p \in 1..Len(cleanedData) } :
                                  /\ bp[2] <= Len(organizedData[bp[1]][2])
                                  /\ organizedData[bp[1]][2][bp[2]] = cleanedData[i] }) = 1
              /\ \E b \in 1..Len(organizedData) :
                    /\ organizedData[b][1] = cleanedData[i].category
                    /\ \E p \in 1..Len(organizedData[b][2]) :
                          organizedData[b][2][p] = cleanedData[i]
        /\ \A b \in 1..Len(organizedData) :
              /\ organizedData[b][2] # <<>>
              /\ \A p \in 1..Len(organizedData[b][2]) :
                    \E i \in 1..Len(cleanedData) : cleanedData[i] = organizedData[b][2][p]
        /\ \A b, c \in 1..Len(organizedData) :
              organizedData[b][1] = organizedData[c][1] => b = c

\* two buckets whose names differ only in case, one of them with two records
C3_Witness ==
    /\ Completed("Organize")
    /\ \E b, c \in 1..Len(organizedData) :
          /\ organizedData[b][1] = "Team"
          /\ organizedData[c][1] = "team"
          /\ Len(organizedData[b][2]) + Len(organizedData[c][2]) = 3

\* C10: the deduplicated sequence lists the distinct ids in the order of their
\* first occurrence in the input, and holds at each position the last
\* occurrence of that id.
C10_DedupOrder ==
    Completed("Clean") =>
        /\ Ids(unique) = Ids(data)
        /\ Len(unique) = Cardinality(Ids(data))
        /\ \A j, k \in 1..Len(unique) :
              j < k => FirstIndex(data, unique[j].id) < FirstIndex(data, unique[k].id)
        /\ \A j \in 1..Len(unique) : unique[j] = data[LastIndex(data, unique[j].id)]

\* a kept record stands before another kept record that arrived earlier
C10_Witness ==
    /\ Completed("Clean")
    /\ \E j, k \in 1..Len(unique) :
          /\ j < k
          /\ LastIndex(data, unique[j].id) > LastIndex(data, unique[k].id)

(* --------------------------- the whole run ---------------------------- *)
\* C4: in a run that reaches Done, the exposed processed-record count and the
\* report's totalRecordsProcessed equal the number of validated records of
\* that run, also when the run follows an earlier run of the same bot.
C4_CountMatchesRun ==
    pc = "Done" =>
        /\ processedCount = Len(cleanedData)
        /\ reportPath \in DOMAIN outputDir
        /\ outputDir[reportPath].totalRecordsProcessed = Len(cleanedData)

C5_Order ==
    /\ Len(started) <= Len(Steps)
    /\ \A i \in 1..Len(started) : started[i] = Steps[i]
    /\ pc \in Range(Steps) =>
          /\ Len(started) < Len(Steps)
          /\ pc = Steps[Len(started) + 1]
          /\ raised = NoError
    /\ pc = "Done" => started = Steps /\ raised = NoError /\ rethrown = NoError
    /\ pc = "Failed" => started # <<>> /\ raised # NoError /\ rethrown = raised
    /\ reportPath # NoPath => pc = "Done" /\ reportPath \in DOMAIN outputDir
    /\ \A f \in DOMAIN outputDir : f.ext = ".json" => outputDir[f].status = "SUCCESS"

C5_Steps ==
    /\ pc = "Failed" => started' = started \/ (pc' = "Init" /\ run' = run + 1)
    /\ started' # started /\ started' # <<>> =>
          /\ started' = Append(started, pc)
          /\ \/ pc' = "Failed"
             \/ pc' = IF Len(started') = Len(Steps) THEN "Done"
                      ELSE Steps[Len(started') + 1]
    /\ (\E f \in DOMAIN outputDir' :
            /\ f.ext = ".json"
            /\ f \notin DOMAIN outputDir)
          => pc = "Report" /\ pc' = "Done" /\ started' = Steps

\* C5: the steps of a run start in the order Init, Read, Clean, Organize,
\* Generate, Archive, Report, each at most once and only after every earlier
\* step completed without error; a step that raises sends the run to Failed,
\* no later step executes and the same error is re-raised; a report is written
\* only by a run whose six earlier steps succeeded, with status SUCCESS.
C5_StepOrder == []C5_Order /\ [][C5_Steps]_vars

\* a second run failed in Archive with the outputs of Generate on disk and no
\* report
C5_Witness ==
    /\ pc = "Failed"
    /\ started = SubSeq(Steps, 1, 6)
    /\ rethrown = "IOError"
    /\ created # <<>>
    /\ run = 2
    /\ \A f \in DOMAIN outputDir : f.ext # ".json"

\* C6: after a successful run no .csv or .json file is left directly in the
\* input directory, and every such file that was there is in the archive
\* subdirectory under the same name with the same content.
C6_Archived ==
    pc = "Done" =>
        /\ \A f \in DOMAIN inputDir : f.ext \notin {".csv", ".json"}
        /\ \A f \in DOMAIN atStart.input :
              f.ext \in {".csv", ".json"} =>
                  /\ f \in DOMAIN archiveDir
                  /\ archiveDir[f] = atStart.input[f]

\* a successful run moved a .json and a .csv file and left the .txt file
C6_Witness ==
    /\ pc = "Done"
    /\ \E f, g \in DOMAIN atStart.input : f.ext = ".json" /\ g.ext = ".csv"
    /\ \E f \in DOMAIN inputDir : f.ext = ".txt"
    /\ cleanedData # <<>>

\* C7: a record read from a .json input file with an empty category string is
\* dropped by validation: it is in no bucket and in no output file of the run.
C7_EmptyCategoryDropped ==
    \A f \in DOMAIN atStart.input :
        f.ext = ".json" =>
            \A idx \in 1..Len(atStart.input[f].items) :
                LET item == atStart.input[f].items[idx]
                IN  item.category = "" =>
                        /\ \A b \in 1..Len(organizedData) :
                              \A p \in 1..Len(organizedData[b][2]) :
                                  ~(/\ organizedData[b][2][p].id = item.id
                                    /\ organizedData[b][2][p].name = item.name)
                        /\ \A i \in 1..Len(created) :
                              \A l \in 2..Len(outputDir[created[i]]) :
                                  ~(/\ outputDir[created[i]][l][1] = Quoted(item.id)
                                    /\ outputDir[created[i]][l][2] = Quoted(item.name))

BadJsonAtStart ==
    \E f \in DOMAIN atStart.input :
        f.ext = ".json" /\ atStart.input[f].kind = "text"

\* C8: a run whose input directory holds a syntactically invalid .json file,
\* at any position of the listing, never gets past Read and leaves no partial
\* result: no output file, no archived file, no report, no counted record.
C8_MalformedAborts ==
    (run >= 1 /\ BadJsonAtStart) =>
        /\ pc \in {"Init", "Read", "Failed"}
        /\ ~Did("Clean")
        /\ outputDir = atStart.output
        /\ archiveDir = atStart.archive
        /\ inputDir = atStart.input
        /\ processedCount = atStart.count
        /\ created = <<>>
        /\ reportPath = NoPath

\* the run failed on the invalid file although a well-formed file with records
\* was there as well
C8_Witness ==
    /\ pc = "Failed"
    /\ raised = "SyntaxError"
    /\ \E f \in DOMAIN inputDir :
          f.ext = ".json" /\ inputDir[f].kind = "array" /\ inputDir[f].items # <<>>

\* the .csv files this run added to the output directory
Added == { f \in DOMAIN outputDir \ DOMAIN atStart.output : f.ext = ".csv" }

\* the header row followed by the rows of bucket b
Table(b) ==
    <<Headers>> \o [i \in 1..Len(organizedData[b][2]) |-> CsvRow(organizedData[b][2][i])]

CsvAtStart == { f \in DOMAIN atStart.input : f.ext = ".csv" }

JsonAtStart == { f \in DOMAIN atStart.input : f.ext = ".json" }

\* C11: a .csv input file is read, yields no record and raises no error
\* whatever it holds, and a successful run still moves it to the archive; a
\* run whose inputs are only .csv files ends with no category output file
\* and a report total of 0.
C11_CsvIgnored ==
    /\ Completed("Read") =>
          Len(data) = TotalItems([f \in JsonAtStart |-> atStart.input[f]])
    /\ (pc = "Failed" /\ raised = "SyntaxError") => BadJsonAtStart
    /\ pc = "Done" =>
          \A f \in CsvAtStart :
              /\ f \notin DOMAIN inputDir
              /\ f \in DOMAIN archiveDir
              /\ archiveDir[f] = atStart.input[f]
    /\ (pc = "Done" /\ CsvAtStart # {} /\ JsonAtStart = {}) =>
          /\ created = <<>>
          /\ Added = {}
          /\ outputDir[reportPath].totalRecordsProcessed = 0

\* the positions <<file, index>> of the records in the .json input files
Positions ==
    { fi \in JsonAtStart \X (1..MaxItems + 1) :
          fi[2] <= Len(atStart.input[fi[1]].items) }

ItemAt(fi) == atStart.input[fi[1]].items[fi[2]]

NoId(item) == item.id \in {Undefined, ""}

\* C12: a record without an id at index i of a .json file gets the id row_<i>,
\* the same as an id-less record at index i of another file and as a record
\* whose explicit id is row_<i>; Clean takes them for duplicates and keeps only
\* the one that arrived last.
C12_SyntheticIdsCollide ==
    Completed("Clean") =>
        \A p, q \in Positions :
            (/\ p # q
             /\ NoId(ItemAt(p))
             /\ \/ NoId(ItemAt(q)) /\ q[2] = p[2]
                \/ ItemAt(q).id = RowId(p[2] - 1))
            => /\ Cardinality({ j \in 1..Len(data) : data[j].id = RowId(p[2] - 1) }) >= 2
               /\ Cardinality({ j \in 1..Len(unique) : unique[j].id = RowId(p[2] - 1) }) = 1
               /\ \A j \in 1..Len(unique) :
                     unique[j].id = RowId(p[2] - 1)
                         => unique[j] = data[LastIndex(data, RowId(p[2] - 1))]

\* two files each held one record without an id, and Clean kept one record
C12_Witness ==
    /\ Completed("Clean")
    /\ Cardinality({ p \in Positions : NoId(ItemAt(p)) }) = 2
    /\ Cardinality(JsonAtStart) = 2
    /\ Len(data) = 2
    /\ Len(cleanedData) = 1

====
